---- MODULE Spec2Model ----
(***************************************************************************)
(* blaslapack6432: generate.py (wrapper synthesis) and                     *)
(* generate_signatures.py (signature extraction) as state machines.        *)
(*                                                                         *)
(* JSON documents are trees.  A value is a record [t, v, keys, items]:     *)
(*   t = "str" / "num" / "null"  scalar, text in v                         *)
(*   t = "list"                  elements in items                         *)
(*   t = "dict"                  keys (insertion order) and their values   *)
(*                               in items, position by position            *)
(* Python's None is the "null" value.                                      *)
(***************************************************************************)
EXTENDS Integers, Sequences, FiniteSets, TLC

VARIABLES
    pc,            \* position in generate.py: main() / generate_signatures()
    main_doc,      \* signatures.json as read
    override_doc,  \* signatures-override.json as read
    include_doc,   \* include.json as read
    signatures,    \* the effective catalog (after json_merge)
    names,         \* result of load_include
    idx,           \* position of the loop over names (1-based)
    errors,        \* accumulated (name, info, cause) triples
    codes,         \* generated code, one entry per successful name
    file_c,        \* blaslapack6432.c: [exists, text], text the blocks written
    file_d,        \* blaslapack6432.d: [exists, text], text the paths written
    exc,           \* the exception that ended the run ("none" while running)
    report,        \* what the exception carries (the printed message)
    fs,            \* generate_signatures.py: the source files under lapack_dir
    pending,       \* files whose process_fortran result was not consumed yet
    skipped_files, \* generate_signatures.py main(): set of skipped files
    wr             \* one execution of a generated wrapper

vars == <<pc, main_doc, override_doc, include_doc, signatures, names, idx,
          errors, codes, file_c, file_d, exc, report, fs, pending,
          skipped_files, wr>>

genvars == <<main_doc, override_doc, include_doc, signatures, names, idx,
             errors, codes, file_c, file_d, exc, report>>

(***************************************************************************)
(* JSON values                                                             *)
(***************************************************************************)
JStr(s) == [t |-> "str", v |-> s, keys |-> <<>>, items |-> <<>>]

JNum(s) == [t |-> "num", v |-> s, keys |-> <<>>, items |-> <<>>]

JNull == [t |-> "null", v |-> "", keys |-> <<>>, items |-> <<>>]

JList(xs) == [t |-> "list", v |-> "", keys |-> <<>>, items |-> xs]

JDict(ks, xs) == [t |-> "dict", v |-> "", keys |-> ks, items |-> xs]

IsDict(x) == x.t = "dict"

Range(s) == {s[i] : i \in 1..Len(s)}

KeyPos(d, k) == CHOOSE i \in 1..Len(d.keys) : d.keys[i] = k

HasKey(d, k) == IsDict(d) /\ k \in Range(d.keys)

\* d.get(k): the value, or None
DictGet(d, k) == IF HasKey(d, k) THEN d.items[KeyPos(d, k)] ELSE JNull

\* d[k] = x: an existing key keeps its position, a new key is appended
DictSet(d, k, x) ==
    IF HasKey(d, k)
    THEN [d EXCEPT !.items[KeyPos(d, k)] = x]
    ELSE [d EXCEPT !.keys = Append(@, k), !.items = Append(@, x)]

\* a list of strings as a TLA+ sequence
StrList(x) == [i \in 1..Len(x.items) |-> x.items[i].v]

JStrList(ss) == JList([i \in 1..Len(ss) |-> JStr(ss[i])])

RECURSIVE Join(_, _)
Join(ss, sep) ==
    IF ss = <<>> THEN ""
    ELSE IF Len(ss) = 1 THEN ss[1]
    ELSE ss[1] \o sep \o Join(Tail(ss), sep)

(***************************************************************************)
(* json_merge                                                              *)
(***************************************************************************)
MergeOk(x) == [raised |-> FALSE, val |-> x, main |-> JNull,
               override |-> JNull, keys |-> <<>>]

JsonMergeError(main, override, ks) ==
    [raised |-> TRUE, val |-> JNull, main |-> main, override |-> override,
     keys |-> ks]

\* JsonMergeError.__str__
JsonMergeErrorStr(e) ==
    [msg |-> "Json merge error in key", key |-> Join(e.keys, "/"),
     main |-> e.main, override |-> e.override]

RECURSIVE json_merge(_, _)
RECURSIVE json_merge_items(_, _, _)

WrapKeysDropped(name, ks) == ks

WrapKeys(name, ks) == <<name>> \o ks

json_merge(main, override) ==
    IF ~IsDict(main) THEN MergeOk(override)
    ELSE IF ~IsDict(override) THEN JsonMergeError(main, override, <<>>)
    ELSE json_merge_items(main, override, 1)

\* the loop over override.items(), from its i-th item on
json_merge_items(main, override, i) ==
    IF i > Len(override.keys) THEN MergeOk(main)
    ELSE LET name == override.keys[i]
             r == json_merge(DictGet(main, name), override.items[i])
         IN  IF r.raised
             THEN JsonMergeError(r.main, r.override, WrapKeys(name, r.keys))
             ELSE json_merge_items(DictSet(main, name, r.val), override, i + 1)

(***************************************************************************)
(* load_include                                                            *)
(***************************************************************************)
\* Names of include.json are kept as sequences of characters, so that
\* startswith("#") and the "s"/"d"/"c"/"z" prefixes are computed.
startswith(x, c) == Len(x) >= 1 /\ x[1] = c

filter_comments(items) == SelectSeq(items, LAMBDA x : ~startswith(x, "#"))

RECURSIVE expand(_, _, _)
expand(parts, p1, p2) ==
    IF parts = <<>> THEN <<>>
    ELSE << <<p1>> \o parts[1], <<p2>> \o parts[1] >> \o expand(Tail(parts), p1, p2)

load_include_swapped(include) ==
    filter_comments(include.other)
        \o expand(filter_comments(include.cz), "c", "z")
        \o expand(filter_comments(include.sd), "s", "d")

RECURSIVE dedup(_, _)
dedup(xs, seen) ==
    IF xs = <<>> THEN <<>>
    ELSE IF xs[1] \in seen THEN dedup(Tail(xs), seen)
    ELSE <<xs[1]>> \o dedup(Tail(xs), seen \cup {xs[1]})

load_include_dedup(include) ==
    dedup(filter_comments(include.other)
            \o expand(filter_comments(include.sd), "s", "d")
            \o expand(filter_comments(include.cz), "c", "z"), {})

load_include(include) ==
    filter_comments(include.other)
        \o expand(filter_comments(include.sd), "s", "d")
        \o expand(filter_comments(include.cz), "c", "z")

\* a name as the string that keys the catalog
RECURSIVE Str(_)
Str(cs) == IF cs = <<>> THEN "" ELSE cs[1] \o Str(Tail(cs))

(***************************************************************************)
(* generate_code                                                           *)
(*                                                                         *)
(* Rendered text is a sequence of statements [op, arg, size, params]:      *)
(* op names the template line, arg the argument it is emitted for, size    *)
(* the array_size expression (a sequence of tokens, "*" a token of its     *)
(* own), params the parameter or actual-argument list.                     *)
(***************************************************************************)
Stmt(op, arg, size, params) ==
    [op |-> op, arg |-> arg, size |-> size, params |-> params]

RECURSIVE Flatten(_)
Flatten(ss) == IF ss = <<>> THEN <<>> ELSE ss[1] \o Flatten(Tail(ss))

\* strings int() accepts, as far as the catalogs of the model use them
Numerals == {"0", "1", "2", "3"}

SizeOk(tokens) == [exc |-> "none", size |-> tokens]

SizeError == [exc |-> "ValueError", size |-> <<>>]

format_array_size(dimension) ==
    IF Len(dimension.items) # 1 THEN SizeError      \* (dim_info,) = dim_info
    ELSE LET dim_info == dimension.items[1] IN
         IF IsDict(dim_info)
         THEN IF Len(dim_info.keys) # 1 THEN SizeError
              ELSE LET value_type == dim_info.keys[1]
                       value == StrList(dim_info.items[1])
                   IN  IF value_type = "min"
                       THEN SizeOk(<<"MIN(", "*", value[1], ", ", "*", value[2], ")">>)
                       ELSE IF value_type = "mulmin"
                       THEN SizeOk(<<value[1], " ", "*", " (int64_t)MIN(",
                                     "*", value[2], ", ", "*", value[3], ")">>)
                       ELSE SizeError
         ELSE IF dim_info.v \in Numerals
              THEN SizeOk(<<dim_info.v>>)
              ELSE SizeOk(<<"*", dim_info.v>>)

\* dict(item["vars"][arg], name=arg), with array_size and constant_dimension
\* as the first loop sets them
MakeArg(item, a) ==
    LET info == DictGet(DictGet(item, "vars"), a)
        dimension == DictGet(info, "dimension")
        sized == DictGet(info, "typespec").v = "integer" /\ HasKey(info, "dimension")
        fmt == IF sized THEN format_array_size(dimension) ELSE SizeOk(<<>>)
    IN  [name |-> a,
         typespec |-> DictGet(info, "typespec").v,
         has_dimension |-> HasKey(info, "dimension"),
         \* arg.get("dimension") / arg.dimension as a truth value
         dimension |-> HasKey(info, "dimension") /\ Len(dimension.items) > 0,
         has_intent |-> HasKey(info, "intent"),
         intent |-> Range(StrList(DictGet(info, "intent"))),
         size_exc |-> fmt.exc,
         array_size |-> fmt.size,
         constant_dimension |-> sized /\ "*" \notin Range(fmt.size)]

MakeArgs(item) ==
    LET as == StrList(DictGet(item, "args"))
    IN  [i \in 1..Len(as) |-> MakeArg(item, as[i])]

\* the second loop: the first argument that raises decides the exception
RECURSIVE CheckArgs(_, _)
CheckArgs(args, j) ==
    IF j > Len(args) THEN "none"
    ELSE IF ~args[j].has_intent /\ args[j].typespec = "integer" THEN "ValueError"
    ELSE IF args[j].typespec = "character" /\ args[j].dimension THEN "UserError"
    ELSE CheckArgs(args, j + 1)

\* args after the second loop: one character_size entry per character argument
SizeArgs(args) ==
    LET chars == SelectSeq([j \in 1..Len(args) |-> [j |-> j, a |-> args[j]]],
                           LAMBDA e : e.a.typespec = "character")
    IN  [i \in 1..Len(chars) |-> "size" \o ToString(chars[i].j - 1)]

IntegerArgs(args) == SelectSeq(args, LAMBDA a : a.typespec = "integer")

Heap(arg) == arg.dimension /\ ~arg.constant_dimension

DeclStmt(arg) ==
    IF arg.dimension /\ arg.constant_dimension
    THEN Stmt("decl_array", arg.name, arg.array_size, <<>>)
    ELSE IF arg.dimension THEN Stmt("decl_ptr", arg.name, <<>>, <<>>)
    ELSE Stmt("decl_scalar", arg.name, <<"1">>, <<>>)

PreCall(arg) ==
    (IF Heap(arg)
     THEN <<Stmt("calloc", arg.name, arg.array_size, <<>>),
            Stmt("assert", arg.name, <<>>, <<>>)>>
     ELSE <<>>)
    \o
    (IF "in" \in arg.intent
     THEN IF arg.dimension
          THEN <<Stmt("copy_in", arg.name, arg.array_size, <<>>)>>
          ELSE <<Stmt("copy_in_scalar", arg.name, <<>>, <<>>)>>
     ELSE <<>>)

PostCallFreeIfOut(arg) ==
    (IF "out" \in arg.intent
     THEN (IF arg.dimension
           THEN <<Stmt("copy_out", arg.name, arg.array_size, <<>>)>>
           ELSE <<Stmt("copy_out_scalar", arg.name, <<>>, <<>>)>>)
          \o (IF Heap(arg) THEN <<Stmt("free", arg.name, <<>>, <<>>)>> ELSE <<>>)
     ELSE <<>>)

PostCall(arg) ==
    (IF "out" \in arg.intent
     THEN IF arg.dimension
          THEN <<Stmt("copy_out", arg.name, arg.array_size, <<>>)>>
          ELSE <<Stmt("copy_out_scalar", arg.name, <<>>, <<>>)>>
     ELSE <<>>)
    \o
    (IF Heap(arg) THEN <<Stmt("free", arg.name, <<>>, <<>>)>> ELSE <<>>)

Actuals(args) ==
    [i \in 1..Len(args) |->
        IF args[i].typespec = "integer" THEN args[i].name \o "_tmp"
        ELSE args[i].name]
    \o [i \in 1..Len(SizeArgs(args)) |-> "1"]

Formals(args) == [i \in 1..Len(args) |-> args[i].name] \o SizeArgs(args)

\* the template, rendered
Render(item, args, prototype) ==
    LET integer_args == IntegerArgs(args)
        has_integer_array_args == \E i \in 1..Len(integer_args) : integer_args[i].dimension
        function == DictGet(item, "block").v = "function"
        name == DictGet(item, "name").v
    IN  IF prototype THEN <<Stmt("prototype", name, <<>>, Formals(args))>>
        ELSE <<Stmt("define", name, <<>>, Formals(args))>>
             \o [i \in 1..Len(integer_args) |-> DeclStmt(integer_args[i])]
             \o (IF has_integer_array_args THEN <<Stmt("decl_idx", "", <<>>, <<>>)>> ELSE <<>>)
             \o (IF function THEN <<Stmt("decl_return_value", "", <<>>, <<>>)>> ELSE <<>>)
             \o Flatten([i \in 1..Len(integer_args) |-> PreCall(integer_args[i])])
             \o <<Stmt("call", name, <<>>, Actuals(args))>>
             \o Flatten([i \in 1..Len(integer_args) |-> PostCall(integer_args[i])])
             \o (IF function THEN <<Stmt("return", "", <<>>, <<>>)>> ELSE <<>>)

generate_code(item, prototype) ==
    LET args == MakeArgs(item)
    IN  IF \E i \in 1..Len(args) : args[i].size_exc # "none"
        THEN [exc |-> "ValueError", code |-> <<>>]
        ELSE IF CheckArgs(args, 1) # "none"
        THEN [exc |-> CheckArgs(args, 1), code |-> <<>>]
        ELSE [exc |-> "none", code |-> Render(item, args, prototype)]

(***************************************************************************)
(* generate.py: main(), load_signatures(), generate_signatures()           *)
(***************************************************************************)
NoReport == [msg |-> "none"]

Traceback == [msg |-> "Traceback"]

\* load_signatures returns the object read from signatures.json, which
\* json_merge has updated in place; the value json_merge returns is dropped
load_signatures(main, override) ==
    LET r == json_merge(main, override)
    IN  IF r.raised THEN [exc |-> "UserError", report |-> JsonMergeErrorStr(r), val |-> JNull]
        ELSE [exc |-> "none", report |-> NoReport,
              val |-> IF IsDict(main) THEN r.val ELSE main]

\* a string holding a file path keeps its "/"-separated components in keys
JPath(components) ==
    [t |-> "str", v |-> Join(components, "/"), keys |-> components, items |-> <<>>]

basename(fn) == fn.keys[Len(fn.keys)]

\* the loop that writes blaslapack6432.d, from the i-th file on
RECURSIVE write_sources_all(_, _, _)
write_sources_all(fns, i, seen) ==
    IF i > Len(fns) THEN <<>>
    ELSE <<fns[i]>> \o write_sources_all(fns, i + 1, seen \cup {basename(fns[i])})

RECURSIVE write_sources(_, _, _)
write_sources(fns, i, seen) ==
    IF i > Len(fns) THEN <<>>
    ELSE IF basename(fns[i]) \in seen THEN write_sources(fns, i + 1, seen)
    ELSE <<fns[i]>> \o write_sources(fns, i + 1, seen \cup {basename(fns[i])})

ExcCause(kind) ==
    IF kind = "UserError" THEN "Cannot deal with character arrays"
    ELSE "Integer argument with unknown 'intent' / dimension cannot be unpacked"

LoadSignatures ==
    /\ pc = "load_signatures"
    /\ LET r == load_signatures(main_doc, override_doc)
       IN  IF r.exc # "none"
           THEN /\ pc' = "exit"
                /\ exc' = r.exc
                /\ report' = r.report
                /\ UNCHANGED signatures
           ELSE /\ pc' = "load_include"
                /\ signatures' = r.val
                /\ UNCHANGED <<exc, report>>
    /\ UNCHANGED <<main_doc, override_doc, include_doc, names, idx, errors, codes,
                   file_c, file_d, fs, pending, skipped_files, wr>>

LoadInclude ==
    /\ pc = "load_include"
    /\ names' = load_include(include_doc)
    /\ idx' = 1
    /\ errors' = <<>>
    /\ codes' = <<>>
    /\ pc' = "loop"
    /\ UNCHANGED <<main_doc, override_doc, include_doc, signatures, file_c, file_d,
                   exc, report, fs, pending, skipped_files, wr>>

\* one iteration of "for name in names"
LoopStep ==
    /\ pc = "loop"
    /\ idx <= Len(names)
    /\ LET name == Str(names[idx])
           item == DictGet(signatures, name)
           proto == generate_code(item, TRUE)
           defn == generate_code(item, FALSE)
       IN  IF ~HasKey(signatures, name) \/ (IsDict(item) /\ ~HasKey(item, "name"))
           THEN \* KeyError
                /\ errors' = Append(errors, [name |-> name, info |-> JStr(""),
                                             cause |-> "missing signature"])
                /\ idx' = idx + 1
                /\ UNCHANGED <<pc, codes, exc, report>>
           ELSE IF ~IsDict(item)
           THEN \* item["name"] on a value that is no mapping
                /\ pc' = "exit"
                /\ exc' = "TypeError"
                /\ report' = Traceback
                /\ UNCHANGED <<idx, errors, codes>>
           ELSE IF proto.exc = "UserError"
           THEN /\ errors' = Append(errors, [name |-> name, info |-> item,
                                             cause |-> ExcCause(proto.exc)])
                /\ idx' = idx + 1
                /\ UNCHANGED <<pc, codes, exc, report>>
           ELSE IF proto.exc # "none"
           THEN \* not a UserError: nothing catches it
                /\ pc' = "exit"
                /\ exc' = proto.exc
                /\ report' = Traceback
                /\ UNCHANGED <<idx, errors, codes>>
           ELSE /\ codes' = Append(codes, proto.code \o defn.code)
                /\ idx' = idx + 1
                /\ UNCHANGED <<pc, errors, exc, report>>
    /\ UNCHANGED <<main_doc, override_doc, include_doc, signatures, names,
                   file_c, file_d, fs, pending, skipped_files, wr>>

Preamble == <<Stmt("preamble", "", <<>>, <<>>)>>

NoFile == [exists |-> FALSE, text |-> <<>>]

WriteC ==
    /\ pc = "loop"
    /\ idx > Len(names)
    /\ file_c' = [exists |-> TRUE, text |-> <<Preamble>> \o codes]
    /\ pc' = "write_d"
    /\ UNCHANGED <<main_doc, override_doc, include_doc, signatures, names, idx,
                   errors, codes, file_d, exc, report, fs, pending,
                   skipped_files, wr>>

WriteD ==
    /\ pc = "write_d"
    /\ IF HasKey(signatures, "skipped_files")
       THEN /\ file_d' = [exists |-> TRUE,
                            text |-> write_sources(DictGet(signatures, "skipped_files").items,
                                                   1, {})]
            /\ pc' = "report"
            /\ UNCHANGED <<exc, report>>
       ELSE \* KeyError, after the file was opened and its first text written
            /\ file_d' = [exists |-> TRUE, text |-> <<>>]
            /\ pc' = "exit"
            /\ exc' = "KeyError"
            /\ report' = Traceback
    /\ UNCHANGED <<main_doc, override_doc, include_doc, signatures, names, idx,
                   errors, codes, file_c, fs, pending, skipped_files, wr>>

Report ==
    /\ pc = "report"
    /\ IF errors # <<>>
       THEN /\ exc' = "UserError"
            /\ report' = [msg |-> "failed to generate wrapper code", msgs |-> errors]
       ELSE UNCHANGED <<exc, report>>
    /\ pc' = "exit"
    /\ UNCHANGED <<main_doc, override_doc, include_doc, signatures, names, idx,
                   errors, codes, file_c, file_d, fs, pending, skipped_files, wr>>

\* sys.exit(0), sys.exit(1) or the interpreter's exit on an uncaught exception
ExitStatus == IF exc = "none" THEN 0 ELSE 1

Generate == LoadSignatures \/ LoadInclude \/ LoopStep \/ WriteC \/ WriteD \/ Report

(***************************************************************************)
(* Catalogs, overrides and inclusion documents the runs start from         *)
(***************************************************************************)
Absent == JNull

VarInfo(typespec, dimension, intent) ==
    JDict(<<"typespec">>
            \o (IF dimension # Absent THEN <<"dimension">> ELSE <<>>)
            \o (IF intent # Absent THEN <<"intent">> ELSE <<>>),
          <<JStr(typespec)>>
            \o (IF dimension # Absent THEN <<dimension>> ELSE <<>>)
            \o (IF intent # Absent THEN <<intent>> ELSE <<>>))

Routine(name, block, args, infos) ==
    JDict(<<"name", "block", "args", "vars">>,
          <<JStr(name), JStr(block), JStrList(args), JDict(args, infos)>>)

In == JStrList(<<"in">>)

Out == JStrList(<<"out">>)

InOut == JStrList(<<"in", "out">>)

Dim(s) == JList(<<JStr(s)>>)

DimMin(a, b) == JList(<<JDict(<<"min">>, <<JStrList(<<a, b>>)>>)>>)

DimMulMin(k, a, b) ==
    JList(<<JDict(<<"mulmin">>, <<JList(<<JNum(k), JStr(a), JStr(b)>>)>>)>>)

Kinds == {"plain", "heap", "const", "chararray", "nointent", "star",
          "multidim", "function"}

\* a signature of each shape generate_code distinguishes
ItemOfKind(kind, name) ==
    CASE kind = "plain" ->
           Routine(name, "subroutine", <<"trans", "n", "x">>,
                   <<VarInfo("character", Absent, Absent), VarInfo("integer", Absent, In),
                     VarInfo("double precision", Dim("*"), Absent)>>)
      [] kind = "heap" ->
           Routine(name, "subroutine", <<"m", "n", "ipiv", "jpiv">>,
                   <<VarInfo("integer", Absent, In), VarInfo("integer", Absent, In),
                     VarInfo("integer", DimMin("m", "n"), Out),
                     VarInfo("integer", DimMulMin("2", "m", "n"), InOut)>>)
      [] kind = "const" ->
           Routine(name, "subroutine", <<"kase", "isave">>,
                   <<VarInfo("integer", Absent, InOut),
                     VarInfo("integer", Dim("3"), InOut)>>)
      [] kind = "chararray" ->
           Routine(name, "subroutine", <<"n", "opts">>,
                   <<VarInfo("integer", Absent, In),
                     VarInfo("character", Dim("2"), Absent)>>)
      [] kind = "nointent" ->
           Routine(name, "subroutine", <<"n", "x">>,
                   <<VarInfo("integer", Absent, Absent),
                     VarInfo("double precision", Dim("*"), Absent)>>)
      [] kind = "star" ->
           Routine(name, "subroutine", <<"liwork", "iwork">>,
                   <<VarInfo("integer", Absent, In),
                     VarInfo("integer", Dim("*"), Out)>>)
      [] kind = "multidim" ->
           Routine(name, "subroutine", <<"n", "iarr">>,
                   <<VarInfo("integer", Absent, In),
                     VarInfo("integer", JStrList(<<"n", "n">>), In)>>)
      [] OTHER ->
           Routine(name, "function", <<"n", "x", "idx">>,
                   <<VarInfo("integer", Absent, In),
                     VarInfo("double precision", Dim("*"), Absent),
                     VarInfo("integer", Dim("n"), In)>>)

SomeSkipped == JList(<<JPath(<<"BLAS", "SRC", "xerbla.f">>), JPath(<<"SRC", "dlamch.f">>),
                       JPath(<<"SRC", "xerbla.f">>)>>)

\* signatures.json: the routines of rs (in order) whose kind is not "absent"
CatalogOf(rs, kind) ==
    LET kept == SelectSeq(rs, LAMBDA r : kind[r] # "absent")
    IN  JDict(kept \o <<"skipped_files">>,
              [i \in 1..Len(kept) |-> ItemOfKind(kind[kept[i]], kept[i])] \o <<SomeSkipped>>)

CatalogNames == <<"daxpy", "foo", "saxpy">>

Catalogs ==
    {CatalogOf(CatalogNames, kind) :
        kind \in [Range(CatalogNames) -> Kinds \cup {"absent"}]}

EmptyDict == JDict(<<>>, <<>>)

Overrides ==
    { EmptyDict,
      \* completes the signature of foo
      JDict(<<"foo">>, <<JDict(<<"vars">>, <<JDict(<<"n">>,
             <<JDict(<<"intent">>, <<In>>)>>)>>)>>),
      \* a scalar where the catalog may hold a mapping
      JDict(<<"foo">>, <<JNum("5")>>),
      JDict(<<"saxpy">>, <<JDict(<<"vars">>, <<JNum("5")>>)>>) }

IncludeDoc(other, sd, cz) == [other |-> other, sd |-> sd, cz |-> cz]

foo == <<"f", "o", "o">>

hashfoo == <<"#", "f", "o", "o">>

axpy == <<"a", "x", "p", "y">>

hashaxpy == <<"#", "a", "x", "p", "y">>

saxpy == <<"s", "a", "x", "p", "y">>

dotc == <<"d", "o", "t", "c">>

hashdotc == <<"#", "d", "o", "t", "c">>

IncludeDocs ==
    { IncludeDoc(<<foo>>, <<axpy>>, <<>>),
      IncludeDoc(<<hashfoo, foo>>, <<>>, <<>>),
      IncludeDoc(<<saxpy, foo>>, <<axpy>>, <<>>) }

GenInit ==
    /\ pc = "load_signatures"
    /\ signatures = EmptyDict
    /\ names = <<>>
    /\ idx = 1
    /\ errors = <<>>
    /\ codes = <<>>
    /\ file_c = NoFile
    /\ file_d = NoFile
    /\ exc = "none"
    /\ report = NoReport

NoExtraction ==
    /\ fs = {}
    /\ pending = {}
    /\ skipped_files = {}

NoWrapper == wr = [pc |-> 0]

\* generate.py on the catalogs, overrides and inclusion lists above
Init ==
    /\ main_doc \in Catalogs
    /\ override_doc \in Overrides
    /\ include_doc \in IncludeDocs
    /\ GenInit
    /\ NoExtraction
    /\ NoWrapper

Next == Generate

Spec == Init /\ [][Next]_vars

(***************************************************************************)
(* generate.py on arbitrary small documents (json_merge)                   *)
(***************************************************************************)
Keys == {"a", "b"}

Scalars == {JNum("1"), JNum("5")}

DictsOver(keyseqs, values) ==
    UNION {{JDict(ks, xs) : xs \in [1..Len(ks) -> values]} : ks \in keyseqs}

\* base documents: mappings nested three deep at most, keys a and b at the
\* top, b below
MainLeaves == Scalars \cup DictsOver({<<>>, <<"b">>}, Scalars)

MainValues == Scalars \cup DictsOver({<<>>, <<"b">>}, MainLeaves)

MainDocs ==
    {[d EXCEPT !.keys = Append(@, "skipped_files"), !.items = Append(@, JList(<<>>))] :
        d \in DictsOver({<<>>, <<"a">>, <<"a", "b">>}, MainValues)}

\* override documents: any value nested three deep at most, the top-level
\* keys in either order
OverrideLeaves == Scalars \cup DictsOver({<<>>, <<"b">>}, Scalars)

OverrideValues == Scalars \cup DictsOver({<<>>, <<"a">>, <<"b">>}, OverrideLeaves)

OverrideDocs ==
    Scalars \cup DictsOver({<<>>, <<"a">>, <<"b">>, <<"a", "b">>, <<"b", "a">>},
                           OverrideValues)

InitMerge ==
    /\ main_doc \in MainDocs
    /\ override_doc \in OverrideDocs
    /\ include_doc = IncludeDoc(<< <<"a">> >>, <<>>, <<>>)
    /\ GenInit
    /\ NoExtraction
    /\ NoWrapper

SpecMerge == InitMerge /\ [][Next]_vars

(***************************************************************************)
(* generate.py on arbitrary small inclusion documents (load_include)       *)
(***************************************************************************)
MaxOther == 2

MaxStems == 2

SeqsUpTo(S, n) == UNION {[1..k -> S] : k \in 0..n}

IncludeCatalog ==
    CatalogOf(<<"cdotc", "daxpy", "foo", "saxpy", "zdotc">>,
              [r \in {"cdotc", "daxpy", "foo", "saxpy", "zdotc"} |->
                  CASE r = "cdotc" -> "chararray"
                    [] r = "zdotc" -> "absent"
                    [] r = "daxpy" -> "heap"
                    [] OTHER -> "plain"])

InitInclude ==
    /\ main_doc = IncludeCatalog
    /\ override_doc = EmptyDict
    /\ include_doc \in {IncludeDoc(o, s, c) :
                            o \in SeqsUpTo({foo, hashfoo, saxpy}, MaxOther),
                            s \in SeqsUpTo({axpy, hashaxpy}, MaxStems),
                            c \in SeqsUpTo({dotc, hashdotc}, MaxStems)}
    /\ GenInit
    /\ NoExtraction
    /\ NoWrapper

SpecInclude == InitInclude /\ [][Next]_vars

(***************************************************************************)
(* generate_signatures.py: process_fortran() and main()                    *)
(*                                                                         *)
(* A source file is [path, text, infos]: its path components below         *)
(* lapack_dir, its comment lines (each a sequence of tokens) and what      *)
(* crackfortran returns for it.                                            *)
(***************************************************************************)
\* [A-Z]+ under re.I: the alphabetic words of the model's documentation
Alpha == {"IWORK", "LIWORK", "IPIV", "M", "N", "INFO", "min", "MIN", "max", "MAX"}

Digits == {"1", "2"}

lower(w) ==
    CASE w = "IWORK" -> "iwork" [] w = "LIWORK" -> "liwork" [] w = "IPIV" -> "ipiv"
      [] w = "M" -> "m" [] w = "N" -> "n" [] w = "INFO" -> "info"
      [] w = "MIN" -> "min" [] w = "MAX" -> "max" [] OTHER -> w

\* \.?\s*$ : an optional full stop ends the line
StripDot(line) ==
    IF Len(line) > 0 /\ line[Len(line)] = "." THEN SubSeq(line, 1, Len(line) - 1) ELSE line

IsArrayLine(l) ==
    Len(l) >= 4 /\ l[1] = "*>" /\ l[2] \in Alpha
                /\ l[3] = "is INTEGER array, dimension" /\ l[4] = "("

NoDimension == <<"None", "None">>

\* the four dimension patterns, tried on one line
MatchDimension(line) ==
    LET l == StripDot(line) IN
    IF ~IsArrayLine(l) THEN NoDimension
    ELSE IF Len(l) = 6 /\ l[5] \in Alpha /\ l[6] = ")"
    THEN <<"var", lower(l[5])>>
    ELSE IF /\ Len(l) = 11 /\ lower(l[5]) = "min" /\ l[6] = "(" /\ l[7] \in Alpha
            /\ l[8] = "," /\ l[9] \in Alpha /\ l[10] = ")" /\ l[11] = ")"
    THEN <<"min", lower(l[7]), lower(l[9])>>
    ELSE IF /\ Len(l) = 13 /\ l[5] \in Digits /\ l[6] = "*" /\ lower(l[7]) = "min"
            /\ l[8] = "(" /\ l[9] \in Alpha /\ l[10] = "," /\ l[11] \in Alpha
            /\ l[12] = ")" /\ l[13] = ")"
    THEN <<"mulmin", l[5], lower(l[9]), lower(l[11])>>
    ELSE IF /\ Len(l) = 11 /\ lower(l[5]) = "max" /\ l[6] = "(" /\ l[7] = "1"
            /\ l[8] = "," /\ l[9] \in Alpha /\ l[10] = ")" /\ l[11] = ")"
    THEN <<"var", lower(l[9])>>
    ELSE NoDimension

\* dimension_info.get(varname, (None, None)): the last matching line decides
RECURSIVE dimension_info(_, _)
dimension_info(text, varname) ==
    IF text = <<>> THEN NoDimension
    ELSE LET last == text[Len(text)] IN
         IF IsArrayLine(StripDot(last)) /\ lower(last[2]) = varname
            /\ MatchDimension(last) # NoDimension
         THEN MatchDimension(last)
         ELSE dimension_info(SubSeq(text, 1, Len(text) - 1), varname)

IsParamLine(l) ==
    /\ Len(l) = 6 /\ l[1] = "*>" /\ l[2] = "\\param" /\ l[3] = "["
    /\ l[4] \in {"in", "out", "in,out"} /\ l[5] = "]" /\ l[6] \in Alpha

\* m.group(1).split(",")
split(w) == IF w = "in,out" THEN <<"in", "out">> ELSE <<w>>

\* intent_info.get(varname): the intent list, or the empty sequence for none
RECURSIVE intent_info(_, _)
intent_info(text, varname) ==
    IF text = <<>> THEN <<>>
    ELSE LET last == text[Len(text)] IN
         IF IsParamLine(last) /\ lower(last[6]) = varname THEN split(last[4])
         ELSE intent_info(SubSeq(text, 1, Len(text) - 1), varname)

RECURSIVE DictDrop(_, _)
DictDrop(d, ks) ==
    LET keep == {i \in 1..Len(d.keys) : d.keys[i] \notin ks}
        pairs == SelectSeq([i \in 1..Len(d.keys) |-> [k |-> d.keys[i], x |-> d.items[i]]],
                           LAMBDA e : e.k \notin ks)
    IN  JDict([i \in 1..Len(pairs) |-> pairs[i].k], [i \in 1..Len(pairs) |-> pairs[i].x])

\* the new dimension of an integer variable whose dimension is ["*"]
Resolve(text, vs, varname, varinfo) ==
    LET d == dimension_info(text, varname)
        dt == d[1]
    IN  IF dt = "mulmin" /\ HasKey(vs, d[3]) /\ HasKey(vs, d[4])
        THEN DimMulMin(d[2], d[3], d[4])
        ELSE IF dt = "min" /\ HasKey(vs, d[2]) /\ HasKey(vs, d[3])
        THEN DimMin(d[2], d[3])
        ELSE IF dt = "var" /\ HasKey(vs, d[2])
        THEN Dim(d[2])
        ELSE DictGet(varinfo, "dimension")

\* one variable of one routine after "Determine integer array dimensions"
ProcessVar(text, vs, varname) ==
    LET dropped == DictDrop(DictGet(vs, varname), {"check", "depend", "=", "attrspec"})
        dims == IF HasKey(dropped, "dimension") THEN DictGet(dropped, "dimension")
                ELSE JList(<<>>)
        sized == IF dims = Dim("*")
                 THEN DictSet(dropped, "dimension", Resolve(text, vs, varname, dropped))
                 ELSE dropped
    IN  IF DictGet(dropped, "typespec").v # "integer" THEN dropped
        ELSE IF intent_info(text, varname) # <<>>
        THEN DictSet(sized, "intent", JStrList(intent_info(text, varname)))
        ELSE sized

ProcessInfo(text, info) ==
    LET kept == DictDrop(info, {"body", "entry", "externals", "from", "interfaced",
                                "sortvars"})
        vs == DictGet(kept, "vars")
    IN  DictSet(kept, "vars",
                JDict(vs.keys,
                      [i \in 1..Len(vs.keys) |-> ProcessVar(text, vs, vs.keys[i])]))

process_fortran(file) ==
    [filename |-> file.path,
     infos |-> [i \in 1..Len(file.infos) |-> ProcessInfo(file.text, file.infos[i])]]

\* the order of Python strings, on the path components of the model
NameOrder ==
    <<"BLAS", "SRC", "daxpy.f", "dgelsd.f", "dgetrf.f", "xerbla.f">>

NameRank(w) == CHOOSE i \in 1..Len(NameOrder) : NameOrder[i] = w

RECURSIVE PathLess(_, _)
PathLess(p, q) ==
    IF p = <<>> THEN q # <<>>
    ELSE IF q = <<>> THEN FALSE
    ELSE IF p[1] = q[1] THEN PathLess(Tail(p), Tail(q))
    ELSE NameRank(p[1]) < NameRank(q[1])

RECURSIVE SetToSeq(_)
SetToSeq(S) ==
    IF S = {} THEN <<>>
    ELSE LET x == CHOOSE x \in S : TRUE IN <<x>> \o SetToSeq(S \ {x})

sorted(paths) == SortSeq(SetToSeq(paths), PathLess)

\* the names the inclusion list selects, as strings
Selected == {Str(names[i]) : i \in 1..Len(names)}

\* the two existence checks that open main()
CheckDirs ==
    /\ pc = "check_dirs"
    /\ IF /\ <<"BLAS", "SRC", "daxpy.f">> \in {f.path : f \in fs}
          /\ <<"SRC", "dgetrf.f">> \in {f.path : f \in fs}
       THEN /\ names' = load_include(include_doc)
            /\ signatures' = EmptyDict
            /\ pending' = fs
            /\ skipped_files' = {f.path : f \in fs}
            /\ pc' = "extract"
            /\ UNCHANGED <<exc, report>>
       ELSE /\ pc' = "exit"
            /\ exc' = "UserError"
            /\ report' = [msg |-> "is not a reference source directory"]
            /\ UNCHANGED <<names, signatures, pending, skipped_files>>
    /\ UNCHANGED <<main_doc, override_doc, include_doc, idx, errors, codes, file_c,
                   file_d, fs, wr>>

\* signatures[info["name"]] = info, for the infos of one file from the i-th on
RECURSIVE Retain(_, _, _, _)
Retain(sigs, infos, i, selected) ==
    IF i > Len(infos) THEN sigs
    ELSE IF DictGet(infos[i], "name").v \in selected
    THEN Retain(DictSet(sigs, DictGet(infos[i], "name").v, infos[i]), infos, i + 1, selected)
    ELSE Retain(sigs, infos, i + 1, selected)

Consume(file) ==
    LET r == process_fortran(file)
        hit == \E i \in 1..Len(r.infos) : DictGet(r.infos[i], "name").v \in Selected
    IN  /\ signatures' = Retain(signatures, r.infos, 1, Selected)
        /\ skipped_files' = IF hit THEN skipped_files \ {r.filename} ELSE skipped_files

\* one result of pool_map(process_fortran, filenames), in any order
ConsumeResult ==
    /\ pc = "extract"
    /\ \E file \in pending :
         /\ Consume(file)
         /\ pending' = pending \ {file}
    /\ UNCHANGED <<pc, main_doc, override_doc, include_doc, names, idx, errors, codes,
                   file_c, file_d, exc, report, fs, wr>>

\* signatures["skipped_files"] = sorted(skipped_files); json.dump.  The run
\* of generate.py that follows reads the file written here.
Dump ==
    /\ pc = "extract"
    /\ pending = {}
    /\ main_doc' = DictSet(signatures, "skipped_files",
                           JList([i \in 1..Len(sorted(skipped_files)) |->
                                     JPath(sorted(skipped_files)[i])]))
    /\ signatures' = EmptyDict
    /\ names' = <<>>
    /\ pc' = "load_signatures"
    /\ UNCHANGED <<override_doc, include_doc, idx, errors, codes, file_c, file_d,
                   exc, report, fs, pending, skipped_files, wr>>

Extract == CheckDirs \/ ConsumeResult \/ Dump


(***************************************************************************)
(* The source trees extraction starts from                                 *)
(***************************************************************************)
SourceFile(path, text, infos) == [path |-> path, text |-> text, infos |-> infos]

ParamLine(intent, name) == <<"*>", "\\param", "[", intent, "]", name>>

ArrayLine(name, expr) == <<"*>", name, "is INTEGER array, dimension", "(">> \o expr \o <<")">>

\* what crackfortran returns: dimensions as declared, no intent
Raw(typespec, dimension) ==
    JDict(<<"typespec">> \o (IF dimension # Absent THEN <<"dimension">> ELSE <<>>)
                         \o <<"attrspec">>,
          <<JStr(typespec)>> \o (IF dimension # Absent THEN <<dimension>> ELSE <<>>)
                             \o <<JList(<<>>)>>)

RawRoutine(name, args, infos) ==
    JDict(<<"name", "block", "args", "vars", "body">>,
          <<JStr(name), JStr("subroutine"), JStrList(args), JDict(args, infos),
            JList(<<>>)>>)

daxpy_f ==
    SourceFile(<<"BLAS", "SRC", "daxpy.f">>,
               <<ParamLine("in", "N")>>,
               <<RawRoutine("daxpy", <<"n", "dx">>,
                            <<Raw("integer", Absent), Raw("double precision", Dim("*"))>>)>>)

xerbla_info ==
    RawRoutine("xerbla", <<"srname", "info">>,
               <<Raw("character", Absent), Raw("integer", Absent)>>)

blas_xerbla_f ==
    SourceFile(<<"BLAS", "SRC", "xerbla.f">>, <<ParamLine("in", "INFO")>>, <<xerbla_info>>)

xerbla_f ==
    SourceFile(<<"SRC", "xerbla.f">>, <<ParamLine("in", "INFO")>>, <<xerbla_info>>)

IworkDocs ==
    { <<>>,
      <<ArrayLine("IWORK", <<"MAX", "(", "1", ",", "LIWORK", ")">>)>>,
      <<ArrayLine("IWORK", <<"LIWORK">>) \o <<".">> >>,
      <<ArrayLine("IWORK", <<"N">>)>> }

dgelsd_f(doc) ==
    SourceFile(<<"SRC", "dgelsd.f">>,
               <<ParamLine("in", "N"), ParamLine("out", "IWORK"), ParamLine("in", "LIWORK")>>
                   \o doc,
               <<RawRoutine("dgelsd", <<"n", "iwork", "liwork">>,
                            <<Raw("integer", Absent), Raw("integer", Dim("*")),
                              Raw("integer", Absent)>>)>>)

IpivDocs ==
    { <<ArrayLine("IPIV", <<"min", "(", "M", ",", "N", ")">>)>>,
      <<ArrayLine("IPIV", <<"2", "*", "min", "(", "M", ",", "N", ")">>)>> }

\* one file that defines two routines
dgetrf_f(doc) ==
    SourceFile(<<"SRC", "dgetrf.f">>,
               <<ParamLine("in", "M"), ParamLine("in", "N"), ParamLine("in,out", "IPIV")>>
                   \o doc,
               <<RawRoutine("dgetrf", <<"m", "n", "ipiv">>,
                            <<Raw("integer", Absent), Raw("integer", Absent),
                              Raw("integer", Dim("*"))>>),
                 RawRoutine("dgetrf2", <<"m", "n", "ipiv">>,
                            <<Raw("integer", Absent), Raw("integer", Absent),
                              Raw("integer", Dim("*"))>>)>>)

SourceTrees ==
    {a \cup b \cup c \cup d :
        a \in SUBSET {daxpy_f, blas_xerbla_f},
        b \in SUBSET {xerbla_f},
        c \in {{}} \cup {{dgelsd_f(doc)} : doc \in IworkDocs},
        d \in {{}} \cup {{dgetrf_f(doc)} : doc \in IpivDocs}}

Name(w) ==
    CASE w = "xerbla" -> <<"x", "e", "r", "b", "l", "a">>
      [] w = "dgelsd" -> <<"d", "g", "e", "l", "s", "d">>
      [] w = "dgetrf" -> <<"d", "g", "e", "t", "r", "f">>
      [] OTHER -> <<"d", "g", "e", "t", "r", "f", "2">>

ExtractIncludeDocs ==
    { IncludeDoc(<<>>, <<axpy>>, <<>>),
      IncludeDoc(<<Name("xerbla")>>, <<>>, <<>>),
      IncludeDoc(<<Name("dgelsd"), Name("dgetrf2")>>, <<>>, <<>>),
      IncludeDoc(<<Name("dgetrf"), Name("xerbla")>>, <<>>, <<>>),
      IncludeDoc(<<Name("dgelsd"), Name("dgetrf"), Name("dgetrf2")>>, <<axpy>>, <<>>) }

\* generate_signatures.py on a source tree, then generate.py on its output
InitExtract ==
    /\ pc = "check_dirs"
    /\ fs \in SourceTrees
    /\ include_doc \in ExtractIncludeDocs
    /\ main_doc = EmptyDict
    /\ override_doc = EmptyDict
    /\ signatures = EmptyDict
    /\ names = <<>>
    /\ idx = 1
    /\ errors = <<>>
    /\ codes = <<>>
    /\ file_c = NoFile
    /\ file_d = NoFile
    /\ exc = "none"
    /\ report = NoReport
    /\ pending = {}
    /\ skipped_files = {}
    /\ NoWrapper

NextExtract == Extract \/ Generate

SpecExtract == InitExtract /\ [][NextExtract]_vars


(***************************************************************************)
(* One call of a generated wrapper                                         *)
(*                                                                         *)
(* wr holds the definition being executed (body, next statement pc), the   *)
(* caller's integer scalars (mem), the source-width scalar temporaries     *)
(* (tmp), and per integer array the number of elements its temporary was   *)
(* declared or allocated with (cap) and the numbers of elements the        *)
(* copy-in and copy-out loops transferred (copied_in, copied_out; -1       *)
(* before the loop ran).                                                   *)
(***************************************************************************)
MaxExtent == 2

Extents == 0..MaxExtent

NumeralValue(c) == CASE c = "0" -> 0 [] c = "1" -> 1 [] c = "2" -> 2 [] OTHER -> 3

Min(x, y) == IF x < y THEN x ELSE y

\* the value of an array_size expression where the statement stands: *x
\* reads the caller's x
SizeValue(size, mem) ==
    IF Len(size) = 1 THEN NumeralValue(size[1])
    ELSE IF Len(size) = 2 THEN mem[size[2]]
    ELSE IF size[1] = "MIN(" THEN Min(mem[size[3]], mem[size[6]])
    ELSE NumeralValue(size[1]) * Min(mem[size[6]], mem[size[9]])

Intents == {In, Out, InOut}

WrapperItem(order, dimension, intent) ==
    Routine("w", "subroutine", order,
            [i \in 1..Len(order) |->
                IF order[i] = "a" THEN VarInfo("integer", dimension, intent["a"])
                ELSE VarInfo("integer", Absent, intent[order[i]])])

WrapperItems ==
    {WrapperItem(order, dimension, intent) :
        order \in {<<"m", "n", "a">>, <<"a", "m", "n">>},
        dimension \in {Dim("3"), Dim("n"), DimMin("m", "n"), DimMulMin("2", "m", "n")},
        intent \in [{"m", "n", "a"} -> Intents]}

InitWrapper ==
    /\ pc = "wrapper"
    /\ main_doc = EmptyDict
    /\ override_doc = EmptyDict
    /\ include_doc = IncludeDoc(<<>>, <<>>, <<>>)
    /\ signatures = EmptyDict
    /\ names = <<>>
    /\ idx = 1
    /\ errors = <<>>
    /\ codes = <<>>
    /\ file_c = NoFile
    /\ file_d = NoFile
    /\ exc = "none"
    /\ report = NoReport
    /\ NoExtraction
    /\ \E item \in WrapperItems, mem \in [{"m", "n"} -> Extents] :
         wr = [pc |-> 1,
               body |-> generate_code(item, FALSE).code,
               mem |-> mem,
               tmp |-> [x \in {"m", "n"} |-> 0],
               cap |-> -1,
               null |-> FALSE,
               copied_in |-> -1,
               copied_out |-> -1,
               freed |-> FALSE,
               status |-> "running"]

Running == wr.pc >= 1 /\ wr.status = "running" /\ wr.pc <= Len(wr.body)

Current == wr.body[wr.pc]

\* the function header and the declarations; a fixed-size temporary has its
\* extent from here on
Declare ==
    /\ Running
    /\ Current.op \in {"define", "decl_scalar", "decl_ptr", "decl_idx", "decl_array"}
    /\ wr' = [wr EXCEPT !.pc = @ + 1,
                        !.cap = IF Current.op = "decl_array"
                                THEN SizeValue(Current.size, wr.mem) ELSE @]
    /\ UNCHANGED <<pc, genvars, fs, pending, skipped_files>>

\* calloc: the buffer, or NULL
Allocate ==
    /\ Running
    /\ Current.op = "calloc"
    /\ \E failed \in BOOLEAN :
         wr' = [wr EXCEPT !.pc = @ + 1,
                          !.null = failed,
                          !.cap = IF failed THEN @ ELSE SizeValue(Current.size, wr.mem)]
    /\ UNCHANGED <<pc, genvars, fs, pending, skipped_files>>

AssertNotNull ==
    /\ Running
    /\ Current.op = "assert"
    /\ wr' = IF wr.null THEN [wr EXCEPT !.status = "aborted"] ELSE [wr EXCEPT !.pc = @ + 1]
    /\ UNCHANGED <<pc, genvars, fs, pending, skipped_files>>

CopyIn ==
    /\ Running
    /\ Current.op \in {"copy_in", "copy_in_scalar"}
    /\ wr' = IF Current.op = "copy_in"
             THEN [wr EXCEPT !.pc = @ + 1, !.copied_in = SizeValue(Current.size, wr.mem)]
             ELSE [wr EXCEPT !.pc = @ + 1, !.tmp[Current.arg] = wr.mem[Current.arg]]
    /\ UNCHANGED <<pc, genvars, fs, pending, skipped_files>>

\* the source-width routine: it may store any value through any integer
\* pointer it is given
Call ==
    /\ Running
    /\ Current.op = "call"
    /\ \E t \in [{"m", "n"} -> Extents] : wr' = [wr EXCEPT !.pc = @ + 1, !.tmp = t]
    /\ UNCHANGED <<pc, genvars, fs, pending, skipped_files>>

CopyOut ==
    /\ Running
    /\ Current.op \in {"copy_out", "copy_out_scalar"}
    /\ wr' = IF Current.op = "copy_out"
             THEN [wr EXCEPT !.pc = @ + 1, !.copied_out = SizeValue(Current.size, wr.mem)]
             ELSE [wr EXCEPT !.pc = @ + 1, !.mem[Current.arg] = wr.tmp[Current.arg]]
    /\ UNCHANGED <<pc, genvars, fs, pending, skipped_files>>

Free ==
    /\ Running
    /\ Current.op = "free"
    /\ wr' = [wr EXCEPT !.pc = @ + 1, !.freed = TRUE]
    /\ UNCHANGED <<pc, genvars, fs, pending, skipped_files>>

\* the closing brace
Return ==
    /\ wr.pc >= 1 /\ wr.status = "running" /\ wr.pc > Len(wr.body)
    /\ wr' = [wr EXCEPT !.status = "returned"]
    /\ UNCHANGED <<pc, genvars, fs, pending, skipped_files>>

NextWrapper ==
    Declare \/ Allocate \/ AssertNotNull \/ CopyIn \/ Call \/ CopyOut \/ Free \/ Return

SpecWrapper == InitWrapper /\ [][NextWrapper]_vars


(***************************************************************************)
(* Properties                                                              *)
(***************************************************************************)
MergeFailed == pc = "exit" /\ report.msg = "Json merge error in key"

RECURSIVE PathIn(_, _)
PathIn(doc, p) ==
    p = <<>> \/ (HasKey(doc, p[1]) /\ PathIn(DictGet(doc, p[1]), Tail(p)))

RECURSIVE At(_, _)
At(doc, p) == IF p = <<>> THEN doc ELSE At(DictGet(doc, p[1]), Tail(p))

KeyPaths == UNION {[1..k -> Keys] : k \in 0..3}

\* the key paths at which the base holds a mapping and the override does not
ConflictPaths(main, override) ==
    {p \in KeyPaths : /\ PathIn(main, p) /\ PathIn(override, p)
                      /\ IsDict(At(main, p)) /\ ~IsDict(At(override, p))}

ExampleMain ==
    JDict(<<"a", "skipped_files">>, <<JDict(<<"b">>, <<JNum("1")>>), JList(<<>>)>>)

ExampleOverride == JDict(<<"a">>, <<JNum("5")>>)

\* C6: once load_signatures has run, the run has failed with the merge
\* error exactly if some key path holds a mapping in the base and a value
\* that is no mapping in the override; the error then names such a path in
\* full, with the base value and the override value found there; the
\* example of the specification reports "a"; and nothing was generated or
\* written.
C6_MergeConflict ==
    pc # "load_signatures" =>
        /\ MergeFailed <=> ConflictPaths(main_doc, override_doc) # {}
        /\ MergeFailed =>
             /\ exc = "UserError"
             /\ \E p \in ConflictPaths(main_doc, override_doc) :
                  /\ report.key = Join(p, "/")
                  /\ report.main = At(main_doc, p)
                  /\ report.override = At(override_doc, p)
             /\ ~file_c.exists /\ ~file_d.exists
             /\ codes = <<>> /\ names = <<>>
        /\ (main_doc = ExampleMain /\ override_doc = ExampleOverride) =>
             MergeFailed /\ report.key = "a"

C6_Witness == MergeFailed /\ report.key = "a/b" /\ report.override = JNum("5")

NonComment(items) == {i \in 1..Len(items) : items[i] = <<>> \/ items[i][1] # "#"}

\* the position among the non-comment entries of the i-th entry
Rank(items, i) == Cardinality({j \in NonComment(items) : j <= i})

\* C8: once load_include has run, names holds the non-comment literal names
\* in input order, then s+stem, d+stem for every non-comment precision stem
\* in input order, then c+stem, z+stem for every non-comment complex stem in
\* input order, and nothing else; the example of the specification gives
\* foo, saxpy, daxpy, cdotc, zdotc.
C8_ExpansionOrder ==
    pc \notin {"load_signatures", "load_include"} =>
        LET o == include_doc.other
            s == include_doc.sd
            c == include_doc.cz
            no == Cardinality(NonComment(o))
            ns == Cardinality(NonComment(s))
            nc == Cardinality(NonComment(c))
        IN  /\ Len(names) = no + 2 * ns + 2 * nc
            /\ \A i \in NonComment(o) : names[Rank(o, i)] = o[i]
            /\ \A i \in NonComment(s) :
                 /\ names[no + 2 * Rank(s, i) - 1] = <<"s">> \o s[i]
                 /\ names[no + 2 * Rank(s, i)] = <<"d">> \o s[i]
            /\ \A i \in NonComment(c) :
                 /\ names[no + 2 * ns + 2 * Rank(c, i) - 1] = <<"c">> \o c[i]
                 /\ names[no + 2 * ns + 2 * Rank(c, i)] = <<"z">> \o c[i]
            /\ include_doc = IncludeDoc(<<foo>>, <<axpy>>, <<dotc>>) =>
                 [i \in 1..Len(names) |-> Str(names[i])]
                    = <<"foo", "saxpy", "daxpy", "cdotc", "zdotc">>

C8_Witness ==
    /\ pc = "exit"
    /\ include_doc = IncludeDoc(<<hashfoo, foo>>, <<axpy, hashaxpy>>, <<dotc>>)
    /\ [i \in 1..Len(names) |-> Str(names[i])]
          = <<"foo", "saxpy", "daxpy", "cdotc", "zdotc">>

\* the blocks of blaslapack6432.c that hold the code of routine name
BlocksOf(name) ==
    {k \in 1..Len(file_c.text) : file_c.text[k][1] = Stmt("prototype", name, <<>>,
                                                        file_c.text[k][1].params)}

Occurrences(name) == {i \in 1..Len(names) : Str(names[i]) = name}

Generates(name) ==
    /\ HasKey(signatures, name)
    /\ HasKey(DictGet(signatures, name), "name")
    /\ generate_code(DictGet(signatures, name), TRUE).exc = "none"

\* C9 as stated: no name occurs twice in the result of load_include and no
\* routine's code is written twice.
C9_Deduplicated ==
    /\ \A i, j \in 1..Len(names) : names[i] = names[j] => i = j
    /\ \A i, j \in 1..Len(file_c.text) :
         file_c.text[i][1] = file_c.text[j][1] => i = j

\* C9 amended: load_include keeps duplicates: a name occurs in names once
\* for every non-comment literal entry equal to it and once for every
\* non-comment stem entry that expands to it, and the generated file holds
\* the code of a routine that generates once per occurrence of its name.
C9_DuplicatesKept ==
    pc \notin {"load_signatures", "load_include"} =>
        /\ \A n \in Range(names) :
             Cardinality({i \in 1..Len(names) : names[i] = n})
               = Cardinality({i \in NonComment(include_doc.other) :
                                 include_doc.other[i] = n})
                 + Cardinality({i \in NonComment(include_doc.sd) :
                                 n \in {<<"s">> \o include_doc.sd[i],
                                        <<"d">> \o include_doc.sd[i]}})
                 + Cardinality({i \in NonComment(include_doc.cz) :
                                 n \in {<<"c">> \o include_doc.cz[i],
                                        <<"z">> \o include_doc.cz[i]}})
        /\ file_c.exists =>
             \A n \in Range(names) :
                Generates(Str(n)) =>
                    Cardinality(BlocksOf(Str(n))) = Cardinality(Occurrences(Str(n)))

C9_Witness ==
    /\ pc = "exit"
    /\ \E i, j \in 1..Len(names) : i < j /\ names[i] = names[j]
    /\ Cardinality(BlocksOf("saxpy")) = 2

Item(name) == DictGet(signatures, name)

ArgNames(item) == Range(StrList(DictGet(item, "args")))

ArgInfo(item, a) == DictGet(DictGet(item, "vars"), a)

IsInteger(item, a) == DictGet(ArgInfo(item, a), "typespec").v = "integer"

MissingSignature(name) == ~HasKey(signatures, name) \/ ~HasKey(Item(name), "name")

HasCharacterArray(item) ==
    \E a \in ArgNames(item) :
        /\ DictGet(ArgInfo(item, a), "typespec").v = "character"
        /\ DictGet(ArgInfo(item, a), "dimension").items # <<>>

HasIntegerWithoutIntent(item) ==
    \E a \in ArgNames(item) : IsInteger(item, a) /\ ~HasKey(ArgInfo(item, a), "intent")

HasUnresolvedDimension(item) ==
    \E a \in ArgNames(item) :
        IsInteger(item, a) /\ DictGet(ArgInfo(item, a), "dimension") = Dim("*")

ErrorNames == {errors[i].name : i \in 1..Len(errors)}

\* every catalog entry a selected name finds is a mapping
EntriesAreMappings == \A n \in Selected : HasKey(signatures, n) => IsDict(Item(n))

\* the order of the blocks of the generated file follows the inclusion order
InInclusionOrder ==
    \E f \in [1..Len(codes) -> 1..Len(names)] :
        /\ \A k \in 1..Len(codes) : codes[k][1].arg = Str(names[f[k]])
        /\ \A k, l \in 1..Len(codes) : k < l => f[k] < f[l]

\* C1 as stated: a run that got past the merge ends with every selected name
\* either recorded as failed (as it is when its signature is missing or it
\* has a character array) or written to the output, in inclusion order, and
\* with UserError, naming every failed routine, and a non-zero status
\* exactly if the error list is non-empty.
C1_EveryNameVisited ==
    (pc = "exit" /\ ~MergeFailed /\ EntriesAreMappings) =>
        /\ file_c.exists
        /\ \A n \in Selected :
             /\ (n \in ErrorNames /\ BlocksOf(n) = {})
                  \/ (n \notin ErrorNames /\ BlocksOf(n) # {})
             /\ (MissingSignature(n) \/ HasCharacterArray(Item(n))) => n \in ErrorNames
        /\ file_c.text = <<Preamble>> \o codes
        /\ InInclusionOrder
        /\ (exc = "UserError" /\ ExitStatus # 0) <=> errors # <<>>
        /\ errors # <<>> => {report.msgs[i].name : i \in 1..Len(report.msgs)} = ErrorNames

\* C2 as stated: a routine with an integer argument without intent is
\* recorded in the error list, and the run still writes the code of every
\* routine that generates.
C2_UnknownIntentIsLocal ==
    (pc = "exit" /\ ~MergeFailed /\ EntriesAreMappings) =>
        \A n \in Selected :
            (~MissingSignature(n) /\ HasIntegerWithoutIntent(Item(n))) =>
                /\ n \in ErrorNames
                /\ \A m \in Selected : Generates(m) => BlocksOf(m) # {}

\* C3 as stated: when the run reaches its report, a routine with an integer
\* array whose dimension is still "*" has no code in the output and is named
\* in the error list.
C3_UnresolvedDimensionFails ==
    (pc = "exit" /\ file_c.exists /\ file_d.exists) =>
        \A n \in Selected :
            (~MissingSignature(n) /\ HasUnresolvedDimension(Item(n))) =>
                BlocksOf(n) = {} /\ n \in ErrorNames

\* an integer array argument whose dimension is not a literal constant
RuntimeDimension(item, a) ==
    /\ IsInteger(item, a)
    /\ DictGet(ArgInfo(item, a), "dimension").items # <<>>
    /\ ~(\E c \in Numerals : DictGet(ArgInfo(item, a), "dimension") = Dim(c))

Places(block, op, a) == {k \in 1..Len(block) : block[k].op = op /\ block[k].arg = a}

Calls(block) == {k \in 1..Len(block) : block[k].op = "call"}

\* C10: in every definition generated, an integer array argument with a
\* runtime-dependent dimension has exactly one calloc, before the call, and
\* exactly one free, after the call and after its copy-out (present whenever
\* its intent includes out); the free is there for every intent; no return
\* lies between the two; no other argument has a calloc or a free.
C10_OneAllocOneFree ==
    \A b \in 1..Len(codes) :
        LET block == codes[b]
            item == Item(block[1].arg)
        IN  /\ Cardinality(Calls(block)) = 1
            /\ \A a \in ArgNames(item) :
                 LET alloc == Places(block, "calloc", a)
                     release == Places(block, "free", a)
                     out == Places(block, "copy_out", a)
                 IN  IF RuntimeDimension(item, a)
                     THEN /\ Cardinality(alloc) = 1
                          /\ Cardinality(release) = 1
                          /\ \A k \in alloc, c \in Calls(block), l \in release :
                               /\ k < c /\ c < l
                               /\ \A o \in out : c < o /\ o < l
                               /\ \A r \in k..l : block[r].op # "return"
                          /\ ("out" \in Range(StrList(DictGet(ArgInfo(item, a), "intent"))))
                               <=> out # {}
                     ELSE alloc = {} /\ release = {}

C10_Witness ==
    /\ pc = "exit"
    /\ \E b \in 1..Len(codes) :
         /\ Places(codes[b], "calloc", "idx") # {}
         /\ Places(codes[b], "free", "idx") # {}
         /\ Places(codes[b], "copy_out", "idx") = {}
    /\ \E b \in 1..Len(codes) :
         /\ Places(codes[b], "free", "jpiv") # {}
         /\ Places(codes[b], "copy_out", "jpiv") # {}

\* the routines file f defines that the inclusion list selects
RetainedOf(f) ==
    {i \in 1..Len(f.infos) : DictGet(f.infos[i], "name").v \in Selected}

Listed == {file_d.text[i].keys : i \in 1..Len(file_d.text)}

GenerateRan == pc = "exit" /\ file_d.exists

C7_IworkGetsLiwork ==
    pc = "extract" =>
        \A f \in fs \ pending : \A i \in RetainedOf(f) :
            LET raw == DictGet(f.infos[i], "vars")
                name == DictGet(f.infos[i], "name").v
            IN  (/\ HasKey(raw, "iwork") /\ HasKey(raw, "liwork")
                 /\ DictGet(DictGet(raw, "iwork"), "typespec").v = "integer"
                 /\ DictGet(DictGet(raw, "iwork"), "dimension") = Dim("*"))
                => DictGet(ArgInfo(Item(name), "iwork"), "dimension") = Dim("liwork")

\* C4 as stated: in every execution of a wrapper, the copy-in loop and the
\* copy-out loop of the integer array each transfer exactly as many
\* elements as its temporary was declared or allocated with.
C4_LoopsMatchTemporary ==
    wr.pc >= 1 =>
        /\ wr.copied_in # -1 => wr.copied_in = wr.cap
        /\ wr.copied_out # -1 => wr.copied_out = wr.cap

====
